---- MODULE Spec2Model ----
(***************************************************************************)
(* Model of the paisa dashboard's client-side logic:                       *)
(*   - the balance page (routes/(app)/assets/balance/+page.svelte): the    *)
(*     hierarchical rollup applyFilters / applyAccountSelectionFilter /    *)
(*     recalculateParentTotals and the page's reactive state;              *)
(*   - the income timeline helpers (calculateNetIncomeMonthly,             *)
(*     calculateNetIncomeDaily, transformToDailyData, renderIncomeTimeline)*)
(*                                                                         *)
(* Account paths are strings; they are modelled as sequences of one-       *)
(* character strings so that split(":"), join(":") and startsWith are      *)
(* computed as the code computes them.  A Record<string, AssetBreakdown>   *)
(* is modelled with its key enumeration order (Object.keys): a record      *)
(* [keys, val].  Amounts are exact integers, ratios exact rationals        *)
(* (IEEE-754 rounding is not modelled).                                    *)
(***************************************************************************)
EXTENDS Integers, Sequences, FiniteSets, TLC

\* ------------------------------------------------------------------------
\* Bounds of the model
\* ------------------------------------------------------------------------

\* largest number of accounts in a fetched breakdown map
MaxAccounts == 3

\* ------------------------------------------------------------------------
\* Strings
\* ------------------------------------------------------------------------

Colon == ":"

\* String.prototype.startsWith
StartsWith(s, prefix) ==
    /\ Len(prefix) <= Len(s)
    /\ SubSeq(s, 1, Len(prefix)) = prefix

\* String.prototype.split(":"): the segments between the colons; a string
\* without a colon (the empty string included) gives one segment.
RECURSIVE SplitFrom(_, _, _)
SplitFrom(s, i, cur) ==
    IF i > Len(s) THEN <<cur>>
    ELSE IF s[i] = Colon THEN <<cur>> \o SplitFrom(s, i + 1, <<>>)
    ELSE SplitFrom(s, i + 1, Append(cur, s[i]))

Split(s) == SplitFrom(s, 1, <<>>)

\* Array.prototype.join(":")
RECURSIVE Join(_)
Join(parts) ==
    IF Len(parts) = 0 THEN <<>>
    ELSE IF Len(parts) = 1 THEN parts[1]
    ELSE parts[1] \o <<Colon>> \o Join(Tail(parts))

\* parts.slice(0, i)
Slice0(parts, i) == SubSeq(parts, 1, i)

\* ------------------------------------------------------------------------
\* Numbers
\* ------------------------------------------------------------------------

Abs(n) == IF n < 0 THEN -n ELSE n

RECURSIVE GCD(_, _)
GCD(a, b) == IF b = 0 THEN a ELSE GCD(b, a % b)

\* an exact rational in lowest terms with a positive denominator
Rat(n, d) ==
    LET g == GCD(Abs(n), Abs(d))
        s == IF d < 0 THEN -1 ELSE 1
    IN  [num |-> (s * n) \div g, den |-> (s * d) \div g]

Zero == Rat(0, 1)

\* ------------------------------------------------------------------------
\* Record<string, AssetBreakdown> with its key order
\* ------------------------------------------------------------------------

EmptyMap == [keys |-> <<>>, val |-> <<>>]

Range(seq) == {seq[i] : i \in 1..Len(seq)}

\* Object.keys(m)
ObjectKeys(m) == m.keys

Has(m, k) == k \in Range(m.keys)

\* m[k]
Get(m, k) == m.val[CHOOSE i \in 1..Len(m.keys) : m.keys[i] = k]

\* m[k] = v : an existing key keeps its place, a new key is appended
Put(m, k, v) ==
    IF Has(m, k)
    THEN [keys |-> m.keys,
          val  |-> [i \in 1..Len(m.keys) |-> IF m.keys[i] = k THEN v ELSE m.val[i]]]
    ELSE [keys |-> Append(m.keys, k), val |-> Append(m.val, v)]

\* the map as a set of (key, value) pairs, its key order forgotten
Entries(m) == {<<m.keys[i], m.val[i]>> : i \in 1..Len(m.keys)}

KeySet(m) == Range(m.keys)

\* ------------------------------------------------------------------------
\* AssetBreakdown
\* ------------------------------------------------------------------------

Breakdown(group, inv, wd, units, market, gain, xirr, absRet) ==
    [group            |-> group,
     investmentAmount |-> inv,
     withdrawalAmount |-> wd,
     balanceUnits     |-> units,
     marketAmount     |-> market,
     gainAmount       |-> gain,
     xirr             |-> xirr,
     absoluteReturn   |-> absRet]

NumericFields ==
    {"investmentAmount", "withdrawalAmount", "balanceUnits", "marketAmount", "gainAmount"}

\* ------------------------------------------------------------------------
\* recalculateParentTotals
\* ------------------------------------------------------------------------

\* Set.prototype.add on a Set kept in insertion order
SetAdd(seq, x) == IF x \in Range(seq) THEN seq ELSE Append(seq, x)

\* for (let i = 1; i < parts.length; i++) parentPaths.add(parts.slice(0, i).join(":"))
RECURSIVE AddParentsOf(_, _, _)
AddParentsOf(parentPaths, parts, i) ==
    IF i >= Len(parts) THEN parentPaths
    ELSE AddParentsOf(SetAdd(parentPaths, Join(Slice0(parts, i))), parts, i + 1)

\* for (const path of allPaths) { ... }
RECURSIVE CollectParentPaths(_, _)
CollectParentPaths(allPaths, parentPaths) ==
    IF Len(allPaths) = 0 THEN parentPaths
    ELSE CollectParentPaths(Tail(allPaths),
                            AddParentsOf(parentPaths, Split(Head(allPaths)), 1))

Depth(path) == Len(Split(path))

\* a comparator that orders the shallowest path first
ShallowestFirst(a, b) == Depth(a) - Depth(b)

\* the comparator (a, b) => b.split(":").length - a.split(":").length
DeepestFirst(a, b) == Depth(b) - Depth(a)

\* Array.prototype.sort is stable: x goes behind every element that does not
\* compare greater than it.
RECURSIVE InsertSorted(_, _)
InsertSorted(sorted, x) ==
    IF Len(sorted) = 0 THEN <<x>>
    ELSE IF DeepestFirst(Head(sorted), x) <= 0
         THEN <<Head(sorted)>> \o InsertSorted(Tail(sorted), x)
         ELSE <<x>> \o sorted

RECURSIVE StableSort(_, _)
StableSort(seq, sorted) ==
    IF Len(seq) = 0 THEN sorted
    ELSE StableSort(Tail(seq), InsertSorted(sorted, Head(seq)))

\* Array.from(parentPaths).sort(deepest first)
SortParentPaths(parentPaths) == StableSort(parentPaths, <<>>)

DirectChildren_AnyDepth(result, parentPath) ==
    SelectSeq(ObjectKeys(result),
              LAMBDA path : StartsWith(path, parentPath \o <<Colon>>))

\* Object.keys(result).filter(one level deeper and starts with parentPath + ":")
DirectChildren(result, parentPath) ==
    SelectSeq(ObjectKeys(result),
              LAMBDA path : /\ Len(Split(path)) = Len(Split(parentPath)) + 1
                            /\ StartsWith(path, parentPath \o <<Colon>>))

ZeroTotals ==
    [investmentAmount |-> 0, withdrawalAmount |-> 0, balanceUnits |-> 0,
     marketAmount |-> 0, gainAmount |-> 0]

AddChild_Overwrite(totals, child) ==
    [investmentAmount |-> child.investmentAmount,
     withdrawalAmount |-> totals.withdrawalAmount + child.withdrawalAmount,
     balanceUnits     |-> totals.balanceUnits + child.balanceUnits,
     marketAmount     |-> child.marketAmount,
     gainAmount       |-> totals.gainAmount + child.gainAmount]

\* the reducer: totals plus one child
AddChild(totals, child) ==
    [investmentAmount |-> totals.investmentAmount + child.investmentAmount,
     withdrawalAmount |-> totals.withdrawalAmount + child.withdrawalAmount,
     balanceUnits     |-> totals.balanceUnits + child.balanceUnits,
     marketAmount     |-> totals.marketAmount + child.marketAmount,
     gainAmount       |-> totals.gainAmount + child.gainAmount]

\* directChildren.reduce(reducer, zero totals)
RECURSIVE Reduce(_, _, _)
Reduce(result, directChildren, totals) ==
    IF Len(directChildren) = 0 THEN totals
    ELSE Reduce(result, Tail(directChildren),
                AddChild(totals, Get(result, Head(directChildren))))

ParentEntry_NonZeroGuard(parentPath, parentTotals) ==
    Breakdown(parentPath,
              parentTotals.investmentAmount,
              parentTotals.withdrawalAmount,
              parentTotals.balanceUnits,
              parentTotals.marketAmount,
              parentTotals.gainAmount,
              IF parentTotals.investmentAmount /= 0
              THEN Rat(parentTotals.gainAmount * 100, parentTotals.investmentAmount)
              ELSE Zero,
              IF parentTotals.investmentAmount /= 0
              THEN Rat((parentTotals.marketAmount - parentTotals.investmentAmount
                        + parentTotals.withdrawalAmount) * 100,
                       parentTotals.investmentAmount)
              ELSE Zero)

\* the entry written to result[parentPath]
ParentEntry(parentPath, parentTotals) ==
    Breakdown(parentPath,
              parentTotals.investmentAmount,
              parentTotals.withdrawalAmount,
              parentTotals.balanceUnits,
              parentTotals.marketAmount,
              parentTotals.gainAmount,
              IF parentTotals.investmentAmount > 0
              THEN Rat(parentTotals.gainAmount * 100, parentTotals.investmentAmount)
              ELSE Zero,
              IF parentTotals.investmentAmount > 0
              THEN Rat((parentTotals.marketAmount - parentTotals.investmentAmount
                        + parentTotals.withdrawalAmount) * 100,
                       parentTotals.investmentAmount)
              ELSE Zero)

\* as ProcessParent, but the children are added onto the entry the parent has
ProcessParent_Accumulate(result, parentPath) ==
    LET directChildren == DirectChildren(result, parentPath)
        start == IF Has(result, parentPath)
                 THEN [f \in NumericFields |-> Get(result, parentPath)[f]]
                 ELSE ZeroTotals
    IN  IF Len(directChildren) > 0
        THEN Put(result, parentPath,
                 ParentEntry(parentPath, Reduce(result, directChildren, start)))
        ELSE result

\* one iteration of the loop over sortedParentPaths
ProcessParent(result, parentPath) ==
    LET directChildren == DirectChildren(result, parentPath)
    IN  IF Len(directChildren) > 0
        THEN Put(result, parentPath,
                 ParentEntry(parentPath, Reduce(result, directChildren, ZeroTotals)))
        ELSE result

RECURSIVE ProcessParents(_, _)
ProcessParents(result, sortedParentPaths) ==
    IF Len(sortedParentPaths) = 0 THEN result
    ELSE ProcessParents(ProcessParent(result, Head(sortedParentPaths)),
                        Tail(sortedParentPaths))

\* as recalculateParentTotals, but result starts empty instead of as a copy
recalculateParentTotals_FromEmpty(filteredData) ==
    LET allPaths == ObjectKeys(filteredData)
        parentPaths == CollectParentPaths(allPaths, <<>>)
    IN  ProcessParents(EmptyMap, SortParentPaths(parentPaths))

recalculateParentTotals(filteredData) ==
    LET result == filteredData
        allPaths == ObjectKeys(result)
        parentPaths == CollectParentPaths(allPaths, <<>>)
    IN  ProcessParents(result, SortParentPaths(parentPaths))

\* ------------------------------------------------------------------------
\* applyAccountSelectionFilter, applyFilters, extractLeafAccounts
\* ------------------------------------------------------------------------

RECURSIVE IncludeSelected_All(_, _, _, _)
IncludeSelected_All(data, keys, selectedLeafAccounts, result) ==
    IF Len(keys) = 0 THEN result
    ELSE IncludeSelected_All(data, Tail(keys), selectedLeafAccounts,
                             Put(result, Head(keys), Get(data, Head(keys))))

\* first loop: include all selected leaf accounts
RECURSIVE IncludeSelected(_, _, _, _)
IncludeSelected(data, keys, selectedLeafAccounts, result) ==
    IF Len(keys) = 0 THEN result
    ELSE LET account == Head(keys)
         IN  IncludeSelected(data, Tail(keys), selectedLeafAccounts,
                 IF account \in selectedLeafAccounts
                 THEN Put(result, account, Get(data, account))
                 ELSE result)

\* as IncludeParents, but the visible children are looked up in data
RECURSIVE IncludeParents_FromData(_, _, _, _)
IncludeParents_FromData(data, keys, selectedLeafAccounts, result) ==
    IF Len(keys) = 0 THEN result
    ELSE LET account == Head(keys)
             hasVisibleChildren ==
                 \E i \in 1..Len(ObjectKeys(data)) :
                     StartsWith(ObjectKeys(data)[i], account \o <<Colon>>)
         IN  IncludeParents_FromData(data, Tail(keys), selectedLeafAccounts,
                 IF account \notin selectedLeafAccounts /\ hasVisibleChildren
                 THEN Put(result, account, Get(data, account))
                 ELSE result)

\* second loop: include parent accounts that have at least one visible child
RECURSIVE IncludeParents(_, _, _, _)
IncludeParents(data, keys, selectedLeafAccounts, result) ==
    IF Len(keys) = 0 THEN result
    ELSE LET account == Head(keys)
             hasVisibleChildren ==
                 \E i \in 1..Len(ObjectKeys(result)) :
                     StartsWith(ObjectKeys(result)[i], account \o <<Colon>>)
         IN  IncludeParents(data, Tail(keys), selectedLeafAccounts,
                 IF account \notin selectedLeafAccounts /\ hasVisibleChildren
                 THEN Put(result, account, Get(data, account))
                 ELSE result)

applyAccountSelectionFilter(data, selectedLeafAccounts) ==
    IncludeParents(data, ObjectKeys(data), selectedLeafAccounts,
        IncludeSelected(data, ObjectKeys(data), selectedLeafAccounts, EmptyMap))

\* as PickNonEmpty, but every entry is kept
PickNonEmpty_KeepAll(data, keys, result) == data

\* _.pickBy(filtered, (breakdown) => breakdown.marketAmount !== 0)
RECURSIVE PickNonEmpty(_, _, _)
PickNonEmpty(data, keys, result) ==
    IF Len(keys) = 0 THEN result
    ELSE PickNonEmpty(data, Tail(keys),
             IF Get(data, Head(keys)).marketAmount /= 0
             THEN Put(result, Head(keys), Get(data, Head(keys)))
             ELSE result)

applyFilters(data, hideEmpty, selectedLeafAccounts) ==
    LET filtered == IF hideEmpty THEN PickNonEmpty(data, ObjectKeys(data), EmptyMap)
                    ELSE data
    IN  recalculateParentTotals(applyAccountSelectionFilter(filtered, selectedLeafAccounts))

\* UTF-16 code units of the characters account paths are written with
CharCode(c) ==
    CASE c = ":" -> 58
      [] c = "A" -> 65
      [] c = "B" -> 66
      [] c = "C" -> 67
      [] c = "D" -> 68

\* a < b in the default order of Array.prototype.sort (by code units)
RECURSIVE StrLess(_, _)
StrLess(a, b) ==
    IF Len(b) = 0 THEN FALSE
    ELSE IF Len(a) = 0 THEN TRUE
    ELSE IF Head(a) = Head(b) THEN StrLess(Tail(a), Tail(b))
    ELSE CharCode(Head(a)) < CharCode(Head(b))

RECURSIVE InsertString(_, _)
InsertString(sorted, x) ==
    IF Len(sorted) = 0 THEN <<x>>
    ELSE IF StrLess(x, Head(sorted)) THEN <<x>> \o sorted
    ELSE <<Head(sorted)>> \o InsertString(Tail(sorted), x)

\* Array.prototype.sort() without a comparator
RECURSIVE SortStrings(_, _)
SortStrings(seq, sorted) ==
    IF Len(seq) = 0 THEN sorted
    ELSE SortStrings(Tail(seq), InsertString(sorted, Head(seq)))

\* as HasChildren, but any key the account is a plain prefix of counts as a child
HasChildren_PlainPrefix(allAccounts, account) ==
    \E i \in 1..Len(allAccounts) :
        /\ allAccounts[i] /= account
        /\ StartsWith(allAccounts[i], account)

\* allAccounts.some(other => other !== account && other.startsWith(account + ":"))
HasChildren(allAccounts, account) ==
    \E i \in 1..Len(allAccounts) :
        /\ allAccounts[i] /= account
        /\ StartsWith(allAccounts[i], account \o <<Colon>>)

extractLeafAccounts(d) ==
    LET allAccounts == ObjectKeys(d)
    IN  SortStrings(SelectSeq(allAccounts, LAMBDA account : ~HasChildren(allAccounts, account)),
                    <<>>)

\* ------------------------------------------------------------------------
\* MultiSelectDropdown: search filter and button text
\* ------------------------------------------------------------------------

\* String.prototype.toLowerCase on the characters used
LowerChar(c) ==
    CASE c = "A" -> "a"
      [] c = "B" -> "b"
      [] c = "C" -> "c"
      [] c = "D" -> "d"
      [] OTHER -> c

ToLowerCase(s) == [i \in 1..Len(s) |-> LowerChar(s[i])]

\* String.prototype.includes
Includes(s, t) == \E i \in 0..(Len(s) - Len(t)) : SubSeq(s, i + 1, i + Len(t)) = t

\* option.toLowerCase().includes(searchTerm.toLowerCase())
Matches(option, term) == Includes(ToLowerCase(option), ToLowerCase(term))

\* export let maxDisplayItems: number = 3
maxDisplayItems == 3

\* the placeholder the balance page passes
placeholder == "Filter accounts..."

\* the pieces a button text is made of: a literal, an item, or a number
Literal(s) == [piece |-> "literal", text |-> s, item |-> <<>>, number |-> 0]

Item(i) == [piece |-> "item", text |-> "", item |-> i, number |-> 0]

Number(n) == [piece |-> "number", text |-> "", item |-> <<>>, number |-> n]

\* items.join(", ")
RECURSIVE JoinComma(_)
JoinComma(items) ==
    IF Len(items) = 0 THEN <<>>
    ELSE IF Len(items) = 1 THEN <<Item(items[1])>>
    ELSE <<Item(items[1]), Literal(", ")>> \o JoinComma(Tail(items))

\* getDisplayText(), arrayFrom being Array.from(selectedItems)
getDisplayText(arrayFrom) ==
    IF Len(arrayFrom) = 0 THEN <<Literal(placeholder)>>
    ELSE IF Len(arrayFrom) <= maxDisplayItems THEN JoinComma(arrayFrom)
    ELSE JoinComma(SubSeq(arrayFrom, 1, maxDisplayItems))
         \o <<Literal(" +"), Number(Len(arrayFrom) - maxDisplayItems), Literal(" more")>>


\* ------------------------------------------------------------------------
\* Inputs: the breakdown maps the page may be handed
\* ------------------------------------------------------------------------

\* account paths, in the sorted order the server's JSON lists its keys in:
\* "", "A", "A:B", "A:B:C", "A:D", "AB:C"
Accounts ==
    << <<>>,
       <<"A">>,
       <<"A", ":", "B">>,
       <<"A", ":", "B", ":", "C">>,
       <<"A", ":", "D">>,
       <<"A", "B", ":", "C">> >>

\* the aggregates an account may carry (group is the account's own path)
SourceBreakdowns(account) ==
    { Breakdown(account, 3, 1, 2, 0, -2, Rat(5, 1), Rat(-7, 2)),
      Breakdown(account, -2, 0, 1, 4, 1, Rat(1, 3), Rat(9, 1)),
      Breakdown(account, 0, 2, -1, -4, 5, Zero, Zero) }

\* the subsequences of Accounts with at most MaxAccounts elements, as index sets
AccountChoices == {S \in SUBSET (1..Len(Accounts)) : Cardinality(S) <= MaxAccounts}

RECURSIVE SeqOfIndexSet(_, _)
SeqOfIndexSet(S, i) ==
    IF i > Len(Accounts) THEN <<>>
    ELSE IF i \in S THEN <<Accounts[i]>> \o SeqOfIndexSet(S, i + 1)
    ELSE SeqOfIndexSet(S, i + 1)

\* every assignment of aggregates to the chosen accounts
RECURSIVE ValuesOver(_)
ValuesOver(keys) ==
    IF Len(keys) = 0 THEN {<<>>}
    ELSE {<<b>> \o rest : b \in SourceBreakdowns(Head(keys)), rest \in ValuesOver(Tail(keys))}

MapsOver(keys) == {[keys |-> keys, val |-> v] : v \in ValuesOver(keys)}

BreakdownMaps == UNION {MapsOver(SeqOfIndexSet(S, 1)) : S \in AccountChoices}

\* the same entries enumerated in another key order
Reordered(m, perm) ==
    [keys |-> [i \in 1..Len(m.keys) |-> m.keys[perm[i]]],
     val  |-> [i \in 1..Len(m.keys) |-> m.val[perm[i]]]]

\* other key orders: the keys reversed, and the keys rotated by one
Reorderings(m) ==
    LET n == Len(m.keys)
    IN  {[i \in 1..n |-> n + 1 - i], [i \in 1..n |-> (i % n) + 1]}

\* ------------------------------------------------------------------------
\* Income timeline: postings, incomes and taxes as objects in memory
\* ------------------------------------------------------------------------

\* most postings one fetched income or tax entry holds
MaxPostings == 2

\* memory: postings[ref] is a Posting object, lists[ref] an array of posting refs
\* (Income.postings and Tax.postings hold such an array)
NoMemory == [postings |-> <<>>, lists |-> <<>>]

\* a new object / array
NewPosting(mem, posting) ==
    [mem |-> [mem EXCEPT !.postings = Append(@, posting)], ref |-> Len(mem.postings) + 1]

NewList(mem, refs) ==
    [mem |-> [mem EXCEPT !.lists = Append(@, refs)], ref |-> Len(mem.lists) + 1]

\* dates are <<year, month (1..12), day>>
Year(date) == date[1]

\* dayjs months are 0-indexed
DayjsMonth(date) == date[2] - 1

DayOfMonth(date) == date[3]

\* format("YYYY-MM") and format("YYYY-MM-DD")
FormatYearMonth(date) == <<date[1], date[2]>>

FormatYearMonthDay(date) == <<date[1], date[2], date[3]>>

IsLeapYear(y) == (y % 4 = 0 /\ y % 100 /= 0) \/ y % 400 = 0

\* targetDate.endOf("month").date()
DaysInMonth(year, month) ==
    IF month = 2 THEN (IF IsLeapYear(year) THEN 29 ELSE 28)
    ELSE IF month \in {4, 6, 9, 11} THEN 30 ELSE 31

IncomeSalary == <<"I", ":", "S">>

IncomeInterest == <<"I", ":", "T">>

\* the account "Income:Net"
IncomeNet == <<"I", ":", "N">>

\* secondName(account): the segment after the first colon
secondName(account) == Split(account)[2]

incomeGroup(posting) == secondName(posting.account)

Posting(id, date, payee, account, commodity, amount) ==
    [id |-> id, date |-> date, payee |-> payee, account |-> account,
     commodity |-> commodity, amount |-> amount]

\* _.sumBy(refs, p => p.amount)
RECURSIVE SumAmounts(_, _)
SumAmounts(mem, refs) ==
    IF Len(refs) = 0 THEN 0
    ELSE mem.postings[Head(refs)].amount + SumAmounts(mem, Tail(refs))

\* income.postings.map((posting) => ({ ...posting, date: dayjs(posting.date) }))
RECURSIVE CopyPostings(_, _, _)
CopyPostings(mem, refs, copies) ==
    IF Len(refs) = 0 THEN [mem |-> mem, refs |-> copies]
    ELSE LET posting == mem.postings[Head(refs)]
             n == NewPosting(mem, [posting EXCEPT !.date = posting.date])
         IN  CopyPostings(n.mem, Tail(refs), Append(copies, n.ref))

\* _.flatMap(incomes, ...): copies of the postings of the incomes of the target month
RECURSIVE MonthlyPostings(_, _, _, _, _)
MonthlyPostings(mem, incomes, year, month, monthlyPostings) ==
    IF Len(incomes) = 0 THEN [mem |-> mem, refs |-> monthlyPostings]
    ELSE LET income == Head(incomes)
         IN  IF Year(income.date) = year /\ DayjsMonth(income.date) = month - 1
             THEN LET c == CopyPostings(mem, mem.lists[income.postings], <<>>)
                  IN  MonthlyPostings(c.mem, Tail(incomes), year, month,
                                      monthlyPostings \o c.refs)
             ELSE MonthlyPostings(mem, Tail(incomes), year, month, monthlyPostings)

\* as DayPostings, but the postings are not grouped by day
DayPostings_EveryDay(mem, monthlyPostings, day) == monthlyPostings

\* postingsByDay[day] || []
DayPostings(mem, monthlyPostings, day) ==
    SelectSeq(monthlyPostings, LAMBDA r : DayOfMonth(mem.postings[r].date) = day)

\* for (let day = 1; day <= daysInMonth; day++) dailyIncomes.push(...): the day's
\* array is the day-th array allocated
DailyIncomes(mem, monthlyPostings, year, month) ==
    LET daysInMonth == DaysInMonth(year, month)
    IN  [mem |-> [mem EXCEPT !.lists =
                     @ \o [day \in 1..daysInMonth |-> DayPostings(mem, monthlyPostings, day)]],
         out |-> [day \in 1..daysInMonth |->
                     [date |-> <<year, month, day>>, postings |-> Len(mem.lists) + day]]]

transformToDailyData(mem, incomes, year, month) ==
    LET m == MonthlyPostings(mem, incomes, year, month, <<>>)
    IN  DailyIncomes(m.mem, m.refs, year, month)

\* the literal used when an income has no posting
DefaultPosting(income) == Posting("net-income", income.date, "Net Income", IncomeNet, "INR", 0)

\* as NetPosting, but basePosting itself is overwritten and returned
NetPosting_InPlace(mem, income, netIncomeAmount) ==
    LET refs == mem.lists[income.postings]
        fresh == NewPosting(mem, DefaultPosting(income))
        m0 == IF Len(refs) > 0 THEN mem ELSE fresh.mem
        base == IF Len(refs) > 0 THEN refs[1] ELSE fresh.ref
    IN  [mem |-> [m0 EXCEPT !.postings[base] =
                     [@ EXCEPT !.amount = -netIncomeAmount, !.account = IncomeNet]],
         ref |-> base]

\* const netPosting = { ...basePosting, amount: -netIncomeAmount, account: "Income:Net" }
NetPosting(mem, income, netIncomeAmount) ==
    LET refs == mem.lists[income.postings]
        fresh == NewPosting(mem, DefaultPosting(income))
        m0 == IF Len(refs) > 0 THEN mem ELSE fresh.mem
        basePosting == IF Len(refs) > 0 THEN mem.postings[refs[1]]
                       ELSE DefaultPosting(income)
    IN  NewPosting(m0, [basePosting EXCEPT !.amount = -netIncomeAmount,
                                           !.account = IncomeNet])

\* as NetIncomeEntry, but the tax is added to the gross income
NetIncomeEntry_PlusTax(mem, income, taxAmount) ==
    LET grossIncomeAmount == -SumAmounts(mem, mem.lists[income.postings])
        netIncomeAmount == grossIncomeAmount + taxAmount
        n == NetPosting(mem, income, netIncomeAmount)
        l == NewList(n.mem, <<n.ref>>)
    IN  [mem |-> l.mem, entry |-> [date |-> income.date, postings |-> l.ref]]

\* the callback of incomes.map(...): one net entry for one income
NetIncomeEntry(mem, income, taxAmount) ==
    LET grossIncomeAmount == -SumAmounts(mem, mem.lists[income.postings])
        netIncomeAmount == grossIncomeAmount - taxAmount
        n == NetPosting(mem, income, netIncomeAmount)
        l == NewList(n.mem, <<n.ref>>)
    IN  [mem |-> l.mem, entry |-> [date |-> income.date, postings |-> l.ref]]

\* taxByMonth.get(monthKey) || 0
RECURSIVE TaxByMonth(_, _, _)
TaxByMonth(mem, taxes, monthKey) ==
    IF Len(taxes) = 0 THEN 0
    ELSE (IF FormatYearMonth(Head(taxes).start_date) = monthKey
          THEN SumAmounts(mem, mem.lists[Head(taxes).postings])
          ELSE 0) + TaxByMonth(mem, Tail(taxes), monthKey)

\* tax.postings.forEach: the amounts of the postings of (year, month) dated dayKey
RECURSIVE SumOnDay(_, _, _, _, _)
SumOnDay(mem, refs, year, month, dayKey) ==
    IF Len(refs) = 0 THEN 0
    ELSE LET postingDate == mem.postings[Head(refs)].date
         IN  (IF /\ Year(postingDate) = year
                 /\ DayjsMonth(postingDate) = month - 1
                 /\ FormatYearMonthDay(postingDate) = dayKey
              THEN mem.postings[Head(refs)].amount
              ELSE 0) + SumOnDay(mem, Tail(refs), year, month, dayKey)

\* taxByDay.get(dayKey) || 0
RECURSIVE TaxByDay(_, _, _, _, _)
TaxByDay(mem, taxes, year, month, dayKey) ==
    IF Len(taxes) = 0 THEN 0
    ELSE SumOnDay(mem, mem.lists[Head(taxes).postings], year, month, dayKey)
         + TaxByDay(mem, Tail(taxes), year, month, dayKey)

\* incomes.map(...): acc holds the memory and the entries returned so far
RECURSIVE NetMonthly(_, _, _)
NetMonthly(acc, incomes, taxes) ==
    IF Len(acc.out) = Len(incomes) THEN acc
    ELSE LET income == incomes[Len(acc.out) + 1]
             e == NetIncomeEntry(acc.mem, income,
                                 TaxByMonth(acc.mem, taxes, FormatYearMonth(income.date)))
         IN  NetMonthly([mem |-> e.mem, out |-> Append(acc.out, e.entry)], incomes, taxes)

calculateNetIncomeMonthly(mem, incomes, taxes) ==
    NetMonthly([mem |-> mem, out |-> <<>>], incomes, taxes)

\* dailyIncomes.map(...)
RECURSIVE NetDaily(_, _, _, _, _)
NetDaily(acc, dailyIncomes, taxes, year, month) ==
    IF Len(acc.out) = Len(dailyIncomes) THEN acc
    ELSE LET income == dailyIncomes[Len(acc.out) + 1]
             e == NetIncomeEntry(acc.mem, income,
                                 TaxByDay(acc.mem, taxes, year, month,
                                          FormatYearMonthDay(income.date)))
         IN  NetDaily([mem |-> e.mem, out |-> Append(acc.out, e.entry)],
                      dailyIncomes, taxes, year, month)

calculateNetIncomeDaily(mem, incomes, taxes, year, month) ==
    LET d == transformToDailyData(mem, incomes, year, month)
    IN  NetDaily([mem |-> d.mem, out |-> <<>>], d.out, taxes, year, month)

\* the groups of a list of postings: _.map(incomeGroup).uniq()
GroupsOf(mem, refs) == {incomeGroup(mem.postings[refs[i]]) : i \in 1..Len(refs)}

\* _.sumBy(postings of one group, p => -p.amount)
RECURSIVE GroupTotal(_, _, _)
GroupTotal(mem, refs, group) ==
    IF Len(refs) = 0 THEN 0
    ELSE (IF incomeGroup(mem.postings[Head(refs)]) = group
          THEN -mem.postings[Head(refs)].amount
          ELSE 0) + GroupTotal(mem, Tail(refs), group)

\* the groups of all postings of the incomes handed to the renderer
RECURSIVE AllGroups(_, _)
AllGroups(mem, incomes) ==
    IF Len(incomes) = 0 THEN {}
    ELSE GroupsOf(mem, mem.lists[Head(incomes).postings]) \cup AllGroups(mem, Tail(incomes))

\* _.merge({ month, date, postings: i.postings }, defaultValues, values): a new
\* object that shares the income's postings array
Point(mem, income, groupKeys, timeFormat) ==
    LET refs == mem.lists[income.postings]
    IN  [month    |-> IF timeFormat = "MMM-YYYY"
                      THEN FormatYearMonth(income.date)
                      ELSE <<income.date[3], income.date[2]>>,
         date     |-> income.date,
         postings |-> income.postings,
         values   |-> [k \in groupKeys |->
                          IF k \in GroupsOf(mem, refs) THEN GroupTotal(mem, refs, k) ELSE 0]]

\* renderIncomeTimeline up to the points it hands to d3: points = _.map(incomes, ...)
renderIncomeTimeline(mem, incomes, timeFormat) ==
    LET groupKeys == AllGroups(mem, incomes)
    IN  [mem |-> mem,
         out |-> [i \in 1..Len(incomes) |-> Point(mem, incomes[i], groupKeys, timeFormat)]]

\* ------------------------------------------------------------------------
\* State
\* ------------------------------------------------------------------------

VARIABLES
    data,                  \* the map handed to applyFilters / recalculateParentTotals
    hideEmpty,             \* applyFilters' hideEmpty argument
    selectedLeafAccounts,  \* applyFilters' selectedLeafAccounts argument
    result,                \* the map the function returned
    again,                 \* recalculateParentTotals(result)
    other,                 \* the map returned for the same entries in another key order
    step                   \* which call has been made

rollupVars == <<data, hideEmpty, selectedLeafAccounts, result, again, other, step>>

\* the balance page (+page.svelte) and its MultiSelectDropdown
VARIABLES
    breakdowns,            \* let breakdowns
    hideEmptyMarketValue,  \* let hideEmptyMarketValue
    selectedAccounts,      \* let selectedAccounts
    leafAccounts,          \* let leafAccounts
    filteredBreakdowns,    \* $: filteredBreakdowns
    dirty,                 \* the page variables invalidated since the last flush
    fetch,                 \* the request of onMount: "pending", "done" or "failed"
    options,               \* the dropdown's options prop
    selectedItems,         \* the dropdown's selectedItems prop
    searchTerm,            \* the dropdown's let searchTerm
    isOpen,                \* the dropdown's let isOpen
    displayText            \* the dropdown's $: displayText

pageVars == <<breakdowns, hideEmptyMarketValue, selectedAccounts, leafAccounts,
              filteredBreakdowns, dirty, fetch, options, selectedItems,
              searchTerm, isOpen, displayText>>

\* the income page's data and the timeline last rendered
VARIABLES
    memory,      \* the Posting objects and postings arrays alive
    incomeData,  \* the fetched incomes
    taxData,     \* the fetched taxes
    fetched,     \* the memory as it was when the data was fetched
    timeline,    \* the incomes handed to renderIncomeTimeline and its points
    rendered     \* which renderer ran last

incomeVars == <<memory, incomeData, taxData, fetched, timeline, rendered>>

\* the income page around the timeline
VARIABLES
    incomeFetch,                       \* the request of onMount: "pending", "done" or "failed"
    timelineMode,                      \* let timelineMode
    incomeDisplayMode,                 \* let incomeDisplayMode
    selectedMonthValue,                \* let selectedMonthValue
    useFiltering,                      \* let useFiltering
    svg,                               \* the children of <svg id="d3-income-timeline">
    monthlyInvestmentTimelineLegends   \* let monthlyInvestmentTimelineLegends

incomePageVars == <<incomeFetch, timelineMode, incomeDisplayMode, selectedMonthValue,
                    useFiltering, svg, monthlyInvestmentTimelineLegends>>

\* one call of a tooltip builder
VARIABLES
    allPostings,   \* its allPostings argument
    groups,        \* its groups / allowedGroups argument
    maxEntries,    \* its maxEntries argument
    content,       \* what it handed to tooltip(): the rows and the total
    called         \* which builder was called

tooltipVars == <<allPostings, groups, maxEntries, content, called>>

\* renderMonthlyRepaymentTimelineWithFilter: its argument and its closure
VARIABLES
    repaymentPostings,  \* its postings argument
    repaymentGroups,    \* const groups
    objects,            \* the point objects alive: objects[ref]
    points,             \* const points, an array of refs
    selectedGroups,     \* let selectedGroups
    bars,               \* what the last render drew: per month the stacked interval of every allowed group
    filterChange        \* the argument of the last onFilterChange call, <<>> before the first

repaymentVars ==
    <<repaymentPostings, repaymentGroups, objects, points, selectedGroups, bars, filterChange>>

vars == <<rollupVars, pageVars, incomeVars, incomePageVars, tooltipVars, repaymentVars>>

rollupOthers == <<pageVars, incomeVars, incomePageVars, tooltipVars, repaymentVars>>

pageOthers == <<rollupVars, incomeVars, incomePageVars, tooltipVars, repaymentVars>>

incomeOthers == <<rollupVars, pageVars, incomePageVars, tooltipVars, repaymentVars>>

\* ------------------------------------------------------------------------
\* The rollup functions applied to every input
\* ------------------------------------------------------------------------

\* the page as constructed and mounted, its request not yet answered
PageInit ==
    /\ breakdowns = EmptyMap
    /\ hideEmptyMarketValue = FALSE
    /\ selectedAccounts = {}
    /\ leafAccounts = <<>>
    /\ filteredBreakdowns = EmptyMap
    /\ dirty = {}
    /\ fetch = "pending"
    /\ options = <<>>
    /\ selectedItems = {}
    /\ searchTerm = <<>>
    /\ isOpen = FALSE
    /\ displayText = getDisplayText(<<>>)

\* no income data
IncomeIdle ==
    /\ memory = NoMemory
    /\ incomeData = <<>>
    /\ taxData = <<>>
    /\ fetched = NoMemory
    /\ timeline = [incomes |-> <<>>, points |-> <<>>]
    /\ rendered = "none"

\* the income page not visited
IncomePageIdle ==
    /\ incomeFetch = "pending"
    /\ timelineMode = "monthly"
    /\ incomeDisplayMode = "gross"
    /\ selectedMonthValue = <<2024, 1>>
    /\ useFiltering = TRUE
    /\ svg = <<>>
    /\ monthlyInvestmentTimelineLegends = <<>>

\* no repayment timeline rendered
RepaymentIdle ==
    /\ repaymentPostings = <<>>
    /\ repaymentGroups = <<>>
    /\ objects = <<>>
    /\ points = <<>>
    /\ selectedGroups = <<>>
    /\ bars = <<>>
    /\ filterChange = <<>>

\* no tooltip built
TooltipIdle ==
    /\ allPostings = <<>>
    /\ groups = <<>>
    /\ maxEntries = 0
    /\ content = [rows |-> <<>>, total |-> 0]
    /\ called = "none"

InitRollup ==
    /\ PageInit
    /\ IncomeIdle
    /\ IncomePageIdle
    /\ TooltipIdle
    /\ RepaymentIdle
    /\ data \in BreakdownMaps
    /\ hideEmpty = FALSE
    /\ selectedLeafAccounts = {}
    /\ result = EmptyMap
    /\ again = EmptyMap
    /\ other = EmptyMap
    /\ step = "input"

\* result = recalculateParentTotals(data)
CallRecalculateParentTotals ==
    /\ step = "input"
    /\ result' = recalculateParentTotals(data)
    /\ step' = "recalculated"
    /\ UNCHANGED <<data, hideEmpty, selectedLeafAccounts, again, other>>

\* again = recalculateParentTotals(result)
CallRecalculateAgain ==
    /\ step = "recalculated"
    /\ again' = recalculateParentTotals(result)
    /\ step' = "recalculatedAgain"
    /\ UNCHANGED <<data, hideEmpty, selectedLeafAccounts, result, other>>

\* other = recalculateParentTotals(the entries of data in another key order)
CallRecalculateReordered ==
    /\ step = "recalculated"
    /\ \E perm \in Reorderings(data) :
          other' = recalculateParentTotals(Reordered(data, perm))
    /\ step' = "recalculatedReordered"
    /\ UNCHANGED <<data, hideEmpty, selectedLeafAccounts, result, again>>

\* result = applyFilters(data, hideEmpty, selectedLeafAccounts)
CallApplyFilters ==
    /\ step = "input"
    /\ \E h \in BOOLEAN, sel \in SUBSET KeySet(data) :
          /\ hideEmpty' = h
          /\ selectedLeafAccounts' = sel
          /\ result' = applyFilters(data, h, sel)
    /\ step' = "filtered"
    /\ UNCHANGED <<data, again, other>>

\* other = applyFilters(the entries of data in another key order, same arguments)
CallApplyFiltersReordered ==
    /\ step = "filtered"
    /\ \E perm \in Reorderings(data) :
          other' = applyFilters(Reordered(data, perm), hideEmpty, selectedLeafAccounts)
    /\ step' = "filteredReordered"
    /\ UNCHANGED <<data, hideEmpty, selectedLeafAccounts, result, again>>

NextRollup ==
    \/ CallRecalculateParentTotals /\ UNCHANGED rollupOthers
    \/ CallRecalculateAgain /\ UNCHANGED rollupOthers
    \/ CallRecalculateReordered /\ UNCHANGED rollupOthers
    \/ CallApplyFilters /\ UNCHANGED rollupOthers
    \/ CallApplyFiltersReordered /\ UNCHANGED rollupOthers

SpecRollup == InitRollup /\ [][NextRollup]_vars

\* ------------------------------------------------------------------------
\* Properties of the rollup
\* ------------------------------------------------------------------------

\* child is exactly one colon-segment deeper than parent and starts with parent + ":"
IsDirectChild(child, parent) ==
    /\ Len(Split(child)) = Len(Split(parent)) + 1
    /\ StartsWith(child, parent \o <<Colon>>)

\* d lies beneath a at any depth
IsDescendant(d, a) == StartsWith(d, a \o <<Colon>>)

\* the sum of one field over a set of keys of m
RECURSIVE SumField(_, _, _)
SumField(m, S, f) ==
    IF S = {} THEN 0
    ELSE LET k == CHOOSE x \in S : TRUE
         IN  Get(m, k)[f] + SumField(m, S \ {k}, f)

DirectChildrenOf(m, k) == {c \in KeySet(m) : IsDirectChild(c, k)}

\* the keys of m beneath which m has no key
LeavesOf(m) == {k \in KeySet(m) : ~ \E o \in KeySet(m) : IsDescendant(o, k)}

\* every proper prefix path of every key of m
AncestorsOf(m) ==
    UNION {{Join(Slice0(Split(k), i)) : i \in 1..(Len(Split(k)) - 1)} : k \in KeySet(m)}

\* the keys of data that pass the empty-market filter and are selected
KeptSelected ==
    {k \in KeySet(data) :
        /\ k \in selectedLeafAccounts
        /\ (hideEmpty => Get(data, k).marketAmount /= 0)}

\* C1: in the map returned by recalculateParentTotals (and so in the map
\* applyFilters returns), every entry with at least one direct child has each of
\* its five numeric fields equal to the sum of that field over its direct children.
C1_ParentIsSumOfDirectChildren ==
    step \in {"recalculated", "filtered"} =>
        \A k \in KeySet(result) :
            DirectChildrenOf(result, k) /= {} =>
                \A f \in NumericFields :
                    Get(result, k)[f] = SumField(result, DirectChildrenOf(result, k), f)

\* a sourced parent with two direct children, one of them a parent itself, whose
\* sourced aggregates were replaced by the children's sums
C1_Witness ==
    /\ step = "recalculated"
    /\ \E k \in KeySet(data) :
          /\ Cardinality(DirectChildrenOf(result, k)) >= 2
          /\ \E c \in DirectChildrenOf(result, k) : DirectChildrenOf(result, c) /= {}
          /\ Get(result, k) /= Get(data, k)

\* C2: in the output of applyFilters an account path that is not a selected leaf
\* is present if and only if some kept selected leaf lies beneath it at any depth.
C2_AncestorPresentIffVisibleDescendant ==
    step = "filtered" =>
        \A p \in (KeySet(data) \cup KeySet(result) \cup AncestorsOf(data)) \ selectedLeafAccounts :
            (p \in KeySet(result)) <=> (\E l \in KeptSelected : IsDescendant(l, p))

\* deselecting a leaf removed an ancestor that lost its last visible descendant
\* while another ancestor, which still has one, stays
C2_Witness ==
    /\ step = "filtered"
    /\ \E p \in KeySet(data) \ selectedLeafAccounts :
          /\ p \notin KeySet(result)
          /\ \E d \in KeySet(data) : IsDescendant(d, p)
    /\ \E q \in KeySet(result) \ selectedLeafAccounts :
          \E l \in KeptSelected : IsDescendant(l, q)

\* C3: no leaf account absent from selectedLeafAccounts appears in the output of
\* applyFilters, and every selected leaf that appears keeps exactly the breakdown
\* it had in the input.
C3_OnlySelectedLeavesUnchanged ==
    step = "filtered" =>
        /\ \A k \in LeavesOf(data) \ selectedLeafAccounts : k \notin KeySet(result)
        /\ \A k \in LeavesOf(data) \cap selectedLeafAccounts :
              k \in KeySet(result) => Get(result, k) = Get(data, k)

\* a selected leaf is shown beside a recomputed parent, and a deselected leaf is gone
C3_Witness ==
    /\ step = "filtered"
    /\ \E k \in LeavesOf(data) \cap selectedLeafAccounts :
          /\ k \in KeySet(result)
          /\ \E a \in KeySet(result) \cap KeySet(data) :
                IsDescendant(k, a) /\ Get(result, a) /= Get(data, a)
    /\ \E k \in LeavesOf(data) \ selectedLeafAccounts : k \notin KeySet(result)

\* C4: in the output of recalculateParentTotals every ancestor of an input key is
\* present, and each ancestor's five numeric fields equal the sum of those fields
\* over all leaf entries beneath it at any depth, also when an intermediate level
\* was missing from the input.
C4_AncestorIsSumOfAllLeaves ==
    step = "recalculated" =>
        /\ AncestorsOf(data) \subseteq KeySet(result)
        /\ \A a \in KeySet(result) :
              LET beneath == {l \in LeavesOf(data) : IsDescendant(l, a)}
              IN  beneath /= {} =>
                      \A f \in NumericFields : Get(result, a)[f] = SumField(data, beneath, f)

\* an intermediate level missing from the input was created, and the level above
\* it sums leaves of two different depths
C4_Witness ==
    /\ step = "recalculated"
    /\ \E a \in KeySet(result), b \in KeySet(result) \ KeySet(data) :
          /\ IsDirectChild(b, a)
          /\ \E l1, l2 \in LeavesOf(data) :
                /\ IsDirectChild(l1, b)
                /\ IsDirectChild(l2, a)

\* C5: recalculateParentTotals is idempotent: a second run returns the same keys
\* with the same field values.
C5_Idempotent ==
    step = "recalculatedAgain" =>
        /\ KeySet(again) = KeySet(result)
        /\ \A k \in KeySet(result) : Get(again, k) = Get(result, k)

\* the first run created a parent and overwrote a sourced one; then it ran again
C5_Witness ==
    /\ step = "recalculatedAgain"
    /\ KeySet(result) /= KeySet(data)
    /\ \E k \in KeySet(data) : Get(result, k) /= Get(data, k)

\* C6: a recomputed parent whose summed investmentAmount is <= 0 has xirr and
\* absoluteReturn exactly 0; when it is > 0 they are gain / investment * 100 and
\* (market - investment + withdrawal) / investment * 100 of the fresh sums.
C6_RatiosGuarded ==
    step \in {"recalculated", "filtered"} =>
        \A k \in KeySet(result) :
            LET ch  == DirectChildrenOf(result, k)
                inv == SumField(result, ch, "investmentAmount")
                wd  == SumField(result, ch, "withdrawalAmount")
                mkt == SumField(result, ch, "marketAmount")
                gn  == SumField(result, ch, "gainAmount")
                e   == Get(result, k)
            IN  ch /= {} =>
                    IF inv <= 0
                    THEN e.xirr = Zero /\ e.absoluteReturn = Zero
                    ELSE /\ e.xirr.num * inv = gn * 100 * e.xirr.den
                         /\ e.absoluteReturn.num * inv
                                = (mkt - inv + wd) * 100 * e.absoluteReturn.den

\* one recomputed parent has a negative summed investment and a non-zero gain,
\* another a positive summed investment
C6_Witness ==
    /\ step = "recalculated"
    /\ \E k1, k2 \in KeySet(result) :
          /\ DirectChildrenOf(result, k1) /= {}
          /\ DirectChildrenOf(result, k2) /= {}
          /\ Get(result, k1).investmentAmount < 0
          /\ Get(result, k1).gainAmount /= 0
          /\ Get(result, k2).investmentAmount > 0
          /\ Get(result, k2).xirr /= Zero

C8_NoParentNoRollup ==
    (step = "recalculated" /\ \A k \in KeySet(data) : Colon \notin Range(k)) =>
        result = data

\* the input holds the empty path and a single-segment path
C8_Witness ==
    /\ step = "recalculated"
    /\ Len(data.keys) >= 2
    /\ \A k \in KeySet(data) : Colon \notin Range(k)
    /\ <<>> \in KeySet(data)

\* C14 as stated: with "Hide empty" enabled no entry of the map applyFilters
\* returns has marketAmount 0, for every breakdown map and every selection.
C14_NoEmptyEntry ==
    (step \in {"filtered", "filteredReordered"} /\ hideEmpty) =>
        \A k \in KeySet(result) : Get(result, k).marketAmount /= 0

\* C14 as amended: with "Hide empty" enabled no entry without a descendant entry
\* has marketAmount 0; an entry with descendants carries the sum of its
\* children, which may be 0.
C14_NoEmptyLeafEntry ==
    (step \in {"filtered", "filteredReordered"} /\ hideEmpty) =>
        \A k \in LeavesOf(result) : Get(result, k).marketAmount /= 0

\* "Hide empty" removed a selected account, and a parent whose children cancel
\* is shown with marketAmount 0
C14_Witness ==
    /\ step = "filtered"
    /\ hideEmpty
    /\ \E k \in selectedLeafAccounts :
          Get(data, k).marketAmount = 0 /\ k \notin KeySet(result)
    /\ \E k \in KeySet(result) :
          Get(result, k).marketAmount = 0 /\ DirectChildrenOf(result, k) /= {}

\* ------------------------------------------------------------------------
\* The balance page: event handlers and the reactive flush
\* ------------------------------------------------------------------------

RollupIdle ==
    /\ data = EmptyMap
    /\ hideEmpty = FALSE
    /\ selectedLeafAccounts = {}
    /\ result = EmptyMap
    /\ again = EmptyMap
    /\ other = EmptyMap
    /\ step = "idle"

Init == PageInit /\ RollupIdle /\ IncomeIdle /\ IncomePageIdle /\ TooltipIdle /\ RepaymentIdle

LeafBlockDeps_NoBreakdowns == {"selectedAccounts", "leafAccounts"}

\* the variables the block "$: { if (breakdowns) ... }" reads
LeafBlockDeps == {"breakdowns", "selectedAccounts", "leafAccounts"}

FilterDeps_NoHide == {"breakdowns", "selectedAccounts"}

\* the variables "$: filteredBreakdowns = applyFilters(...)" reads
FilterDeps == {"breakdowns", "hideEmptyMarketValue", "selectedAccounts"}

\* one run of the page's $$.update followed by its fragment's patch of the
\* dropdown's props; p is the page state, d the dirty variables
UpdateRound(p, d) ==
    LET runLeaf == d \cap LeafBlockDeps /= {}
        leaf    == IF runLeaf THEN extractLeafAccounts(p.breakdowns) ELSE p.leafAccounts
        reset   == runLeaf /\ Cardinality(p.selectedAccounts) = 0
        sel     == IF reset THEN Range(leaf) ELSE p.selectedAccounts
        d1      == d \cup (IF runLeaf THEN {"leafAccounts"} ELSE {})
                     \cup (IF reset THEN {"selectedAccounts"} ELSE {})
        runFilter == d1 \cap FilterDeps /= {}
    IN  [breakdowns           |-> p.breakdowns,
         hideEmptyMarketValue |-> p.hideEmptyMarketValue,
         selectedAccounts     |-> sel,
         leafAccounts         |-> leaf,
         filteredBreakdowns   |-> IF runFilter
                                  THEN applyFilters(p.breakdowns, p.hideEmptyMarketValue, sel)
                                  ELSE p.filteredBreakdowns,
         options              |-> IF "leafAccounts" \in d1 THEN leaf ELSE p.options,
         selectedItems        |-> IF "selectedAccounts" \in d1 THEN sel ELSE p.selectedItems,
         pushed               |-> "selectedAccounts" \in d1]

PageState ==
    [breakdowns           |-> breakdowns,
     hideEmptyMarketValue |-> hideEmptyMarketValue,
     selectedAccounts     |-> selectedAccounts,
     leafAccounts         |-> leafAccounts,
     filteredBreakdowns   |-> filteredBreakdowns,
     options              |-> options,
     selectedItems        |-> selectedItems,
     pushed               |-> FALSE]

\* flush(): the page updates and patches the dropdown; a selectedItems pushed
\* down comes back through bind:selectedItems and the page updates once more
Flush ==
    /\ dirty /= {}
    /\ \E r1 \in {UpdateRound(PageState, dirty)} :
       \E r2 \in {IF r1.pushed THEN UpdateRound(r1, {"selectedAccounts"}) ELSE r1} :
           /\ breakdowns' = r2.breakdowns
           /\ hideEmptyMarketValue' = r2.hideEmptyMarketValue
           /\ selectedAccounts' = r2.selectedAccounts
           /\ leafAccounts' = r2.leafAccounts
           /\ filteredBreakdowns' = r2.filteredBreakdowns
           /\ options' = r2.options
           /\ selectedItems' = r2.selectedItems
    /\ dirty' = {}
    /\ UNCHANGED <<fetch, searchTerm, isOpen, displayText>>

\* the asset_breakdowns the request may be answered with: the maps whose
\* accounts are worth nothing or something (no negative market value)
FetchedMaps ==
    {m \in BreakdownMaps : \A i \in 1..Len(m.keys) : m.val[i].marketAmount >= 0}

\* onMount: the awaited ajax("/api/assets/balance") resolves
FetchSucceeds ==
    /\ dirty = {}
    /\ fetch = "pending"
    /\ \E m \in FetchedMaps : breakdowns' = m
    /\ fetch' = "done"
    /\ dirty' = {"breakdowns"}
    /\ UNCHANGED <<hideEmptyMarketValue, selectedAccounts, leafAccounts,
                   filteredBreakdowns, options, selectedItems,
                   searchTerm, isOpen, displayText>>

\* as FetchFails, but the failure is answered by assigning some breakdowns
FetchFails_AssignsFallback ==
    /\ dirty = {}
    /\ fetch = "pending"
    /\ \E m \in FetchedMaps : breakdowns' = m
    /\ fetch' = "failed"
    /\ dirty' = {"breakdowns"}
    /\ UNCHANGED <<hideEmptyMarketValue, selectedAccounts, leafAccounts,
                   filteredBreakdowns, options, selectedItems,
                   searchTerm, isOpen, displayText>>

\* onMount: the awaited ajax rejects; nothing is assigned
FetchFails ==
    /\ dirty = {}
    /\ fetch = "pending"
    /\ fetch' = "failed"
    /\ UNCHANGED <<breakdowns, hideEmptyMarketValue, selectedAccounts, leafAccounts,
                   filteredBreakdowns, dirty, options, selectedItems,
                   searchTerm, isOpen, displayText>>

\* the "Hide empty" checkbox, bind:checked={hideEmptyMarketValue}
ToggleHideEmpty ==
    /\ dirty = {}
    /\ hideEmptyMarketValue' = ~hideEmptyMarketValue
    /\ dirty' = {"hideEmptyMarketValue"}
    /\ UNCHANGED <<breakdowns, selectedAccounts, leafAccounts, filteredBreakdowns,
                   fetch, options, selectedItems, searchTerm, isOpen, displayText>>

\* the dropdown assigns selectedItems (bound to selectedAccounts) and dispatches
\* "change", which handleAccountSelectionChange stores in selectedAccounts
SelectionChanged(newSelectedItems) ==
    /\ selectedItems' = newSelectedItems
    /\ selectedAccounts' = newSelectedItems
    /\ dirty' = {"selectedAccounts"}
    /\ UNCHANGED <<breakdowns, hideEmptyMarketValue, leafAccounts, filteredBreakdowns,
                   fetch, options, searchTerm, isOpen, displayText>>

\* $: filteredOptions = options.filter(...)
filteredOptions == SelectSeq(options, LAMBDA option : Matches(option, searchTerm))

toggleItem ==
    /\ dirty = {}
    /\ \E i \in 1..Len(filteredOptions) :
          LET item == filteredOptions[i]
          IN  SelectionChanged(IF item \in selectedItems
                               THEN selectedItems \ {item}
                               ELSE selectedItems \cup {item})

selectAll ==
    /\ dirty = {}
    /\ SelectionChanged(Range(filteredOptions))

\* as clearAll, but nothing is left checked
clearAll_Nothing ==
    /\ dirty = {}
    /\ SelectionChanged({})

clearAll ==
    /\ dirty = {}
    /\ SelectionChanged(IF Len(filteredOptions) > 0 THEN {filteredOptions[1]} ELSE {})

\* what the user may type into the search input: nothing, "b", "z"
SearchTerms == {<<>>, <<"b">>, <<"z">>}

\* the search input, bind:value={searchTerm}
TypeSearch ==
    /\ dirty = {}
    /\ \E term \in SearchTerms \ {searchTerm} : searchTerm' = term
    /\ UNCHANGED <<breakdowns, hideEmptyMarketValue, selectedAccounts, leafAccounts,
                   filteredBreakdowns, dirty, fetch, options, selectedItems,
                   isOpen, displayText>>

\* the dropdown button, on:click={() => (isOpen = !isOpen)}
ClickButton ==
    /\ dirty = {}
    /\ isOpen' = ~isOpen
    /\ UNCHANGED <<breakdowns, hideEmptyMarketValue, selectedAccounts, leafAccounts,
                   filteredBreakdowns, dirty, fetch, options, selectedItems,
                   searchTerm, displayText>>

\* a click outside the dropdown, or the Escape key
CloseDropdown ==
    /\ dirty = {}
    /\ isOpen
    /\ isOpen' = FALSE
    /\ UNCHANGED <<breakdowns, hideEmptyMarketValue, selectedAccounts, leafAccounts,
                   filteredBreakdowns, dirty, fetch, options, selectedItems,
                   searchTerm, displayText>>

handleClickOutside == CloseDropdown

handleKeydown == CloseDropdown

Next ==
    \/ Flush /\ UNCHANGED pageOthers
    \/ FetchSucceeds /\ UNCHANGED pageOthers
    \/ FetchFails /\ UNCHANGED pageOthers
    \/ ToggleHideEmpty /\ UNCHANGED pageOthers
    \/ toggleItem /\ UNCHANGED pageOthers
    \/ selectAll /\ UNCHANGED pageOthers
    \/ clearAll /\ UNCHANGED pageOthers
    \/ TypeSearch /\ UNCHANGED pageOthers
    \/ ClickButton /\ UNCHANGED pageOthers
    \/ handleClickOutside /\ UNCHANGED pageOthers
    \/ handleKeydown /\ UNCHANGED pageOthers

Spec == Init /\ [][Next]_vars

\* C9: once reactive updates have settled, filteredBreakdowns equals applyFilters
\* of the current breakdowns, hideEmptyMarketValue and selectedAccounts, after any
\* sequence of hide-empty toggles, selection changes and the fetch completing.
C9_LastWriteWins ==
    dirty = {} =>
        filteredBreakdowns = applyFilters(breakdowns, hideEmptyMarketValue, selectedAccounts)

\* settled after the fetch, a hide-empty toggle and a selection change, each of
\* which changed what is shown
C9_Witness ==
    /\ dirty = {}
    /\ fetch = "done"
    /\ hideEmptyMarketValue
    /\ selectedAccounts /= {}
    /\ selectedAccounts /= Range(leafAccounts)
    /\ filteredBreakdowns /= applyFilters(breakdowns, FALSE, selectedAccounts)
    /\ filteredBreakdowns /= applyFilters(breakdowns, TRUE, Range(leafAccounts))
    /\ filteredBreakdowns /= EmptyMap

\* C11: the fetch is issued once and never retried: until it succeeds (and for
\* ever once it has failed) breakdowns is the empty map, leafAccounts and
\* selectedAccounts are empty and filteredBreakdowns is empty, whatever the user
\* does; the request leaves "pending" once and never returns to it, and
\* breakdowns changes only in the step in which the request succeeds.
C11_FetchOnce ==
    /\ [](fetch /= "done" =>
             /\ breakdowns = EmptyMap
             /\ leafAccounts = <<>>
             /\ selectedAccounts = {}
             /\ filteredBreakdowns = EmptyMap)
    /\ [][/\ fetch' /= fetch => fetch = "pending"
          /\ breakdowns' /= breakdowns => (fetch = "pending" /\ fetch' = "done")]_vars

\* the fetch failed and the user toggled "Hide empty", typed a search term and
\* opened the dropdown
C11_Witness ==
    /\ fetch = "failed"
    /\ dirty = {}
    /\ hideEmptyMarketValue
    /\ searchTerm /= <<>>
    /\ isOpen

\* C12: leafAccounts, as extractLeafAccounts returns it for the fetched map, holds
\* exactly the keys for which no other key starts with the key followed by ':',
\* in strictly ascending order (so without duplicates); a key that is only a
\* plain prefix of another key is a leaf.
C12_LeafAccounts ==
    dirty = {} =>
        /\ Range(leafAccounts) =
              {k \in KeySet(breakdowns) :
                  ~ \E o \in KeySet(breakdowns) : o /= k /\ StartsWith(o, k \o <<":">>)}
        /\ \A i, j \in 1..Len(leafAccounts) :
              i < j => StrLess(leafAccounts[i], leafAccounts[j])

\* a leaf that is a plain prefix of another key ("A" beside "AB:C"), and a
\* third leaf
C12_Witness ==
    /\ dirty = {}
    /\ Len(leafAccounts) >= 3
    /\ \E k \in Range(leafAccounts), o \in KeySet(breakdowns) :
          o /= k /\ k /= <<>> /\ StartsWith(o, k)

\* C13: the update that follows the arrival of the fetched breakdowns settles
\* with selectedAccounts equal to the set of all leaf accounts of the fetched
\* breakdowns, whatever the user did before.
C13_SelectionInitialised ==
    [][("breakdowns" \in dirty) =>
          (dirty' = {} /\ selectedAccounts' = LeavesOf(breakdowns'))]_vars

\* settled on all of at least two leaves, after the user toggled "Hide empty",
\* typed a search term and opened the dropdown
C13_Witness ==
    /\ fetch = "done"
    /\ dirty = {}
    /\ Cardinality(LeavesOf(breakdowns)) >= 2
    /\ selectedAccounts = LeavesOf(breakdowns)
    /\ hideEmptyMarketValue
    /\ searchTerm /= <<>>
    /\ isOpen

Orderings(S) == {order \in [1..Cardinality(S) -> S] : Range(order) = S}

\* C16 as stated: once updates have settled, displayText is the text
\* getDisplayText gives for the current selectedItems (the placeholder, the
\* items joined by ", ", or the first maxDisplayItems items and "+N more").
C16_DisplayTextCurrent ==
    dirty = {} =>
        displayText \in {getDisplayText(order) : order \in Orderings(selectedItems)}

\* ------------------------------------------------------------------------
\* The income timeline renderers applied to fetched data
\* ------------------------------------------------------------------------

\* the postings a fetched income of a month may hold
PostingKinds(year, month) ==
    { Posting("p1", <<year, month, 1>>, "Employer", IncomeSalary, "INR", -5),
      Posting("p2", <<year, month, 15>>, "Bank", IncomeInterest, "INR", 2) }

PostingLists(year, month) ==
    UNION {[1..n -> PostingKinds(year, month)] : n \in 0..MaxPostings}

\* the tax postings a fetched tax entry may hold
TaxPostingLists ==
    { <<>>,
      <<Posting("t1", <<2024, 1, 15>>, "Tax", <<"E", ":", "T">>, "INR", 1)>>,
      <<Posting("t1", <<2024, 1, 15>>, "Tax", <<"E", ":", "T">>, "INR", 1),
        Posting("t2", <<2024, 2, 15>>, "Tax", <<"E", ":", "T">>, "INR", 3)>> }

\* the refs first..first+n-1
Refs(first, n) == [i \in 1..n |-> first + i - 1]

InitIncome ==
    /\ PageInit
    /\ RollupIdle
    /\ IncomePageIdle
    /\ TooltipIdle
    /\ RepaymentIdle
    /\ \E jan \in PostingLists(2024, 1), feb \in PostingLists(2024, 2), tax \in TaxPostingLists :
          /\ memory = [postings |-> jan \o feb \o tax,
                       lists |-> << Refs(1, Len(jan)),
                                    Refs(Len(jan) + 1, Len(feb)),
                                    Refs(Len(jan) + Len(feb) + 1, Len(tax)) >>]
          /\ incomeData = << [date |-> <<2024, 1, 1>>, postings |-> 1],
                             [date |-> <<2024, 2, 1>>, postings |-> 2] >>
          /\ taxData = IF Len(tax) = 0 THEN <<>>
                       ELSE << [start_date |-> <<2024, 1, 1>>, postings |-> 3] >>
    /\ fetched = memory
    /\ timeline = [incomes |-> <<>>, points |-> <<>>]
    /\ rendered = "none"

\* the fetched objects as they are now; what an earlier render allocated is garbage
Live ==
    [postings |-> SubSeq(memory.postings, 1, Len(fetched.postings)),
     lists    |-> SubSeq(memory.lists, 1, Len(fetched.lists))]

\* the months the month picker may select
SelectableMonths == {<<2024, 1>>, <<2024, 2>>}

Rendered(name, incomes, r) ==
    /\ memory' = r.mem
    /\ timeline' = [incomes |-> incomes, points |-> r.out]
    /\ rendered' = name
    /\ UNCHANGED <<incomeData, taxData, fetched>>

renderMonthlyInvestmentTimeline ==
    Rendered("monthly", incomeData, renderIncomeTimeline(Live, incomeData, "MMM-YYYY"))

renderDailyInvestmentTimeline ==
    \E ym \in SelectableMonths :
        LET dailyIncomes == transformToDailyData(Live, incomeData, ym[1], ym[2])
        IN  Rendered("daily", dailyIncomes.out,
                     renderIncomeTimeline(dailyIncomes.mem, dailyIncomes.out, "DD-MMM"))

renderMonthlyNetIncomeTimeline ==
    LET netIncomes == calculateNetIncomeMonthly(Live, incomeData, taxData)
    IN  Rendered("monthlyNet", netIncomes.out,
                 renderIncomeTimeline(netIncomes.mem, netIncomes.out, "MMM-YYYY"))

renderDailyNetIncomeTimeline ==
    \E ym \in SelectableMonths :
        LET netIncomes == calculateNetIncomeDaily(Live, incomeData, taxData, ym[1], ym[2])
        IN  Rendered("dailyNet", netIncomes.out,
                     renderIncomeTimeline(netIncomes.mem, netIncomes.out, "DD-MMM"))

NextIncome ==
    \/ renderMonthlyInvestmentTimeline /\ UNCHANGED incomeOthers
    \/ renderDailyInvestmentTimeline /\ UNCHANGED incomeOthers
    \/ renderMonthlyNetIncomeTimeline /\ UNCHANGED incomeOthers
    \/ renderDailyNetIncomeTimeline /\ UNCHANGED incomeOthers

SpecIncome == InitIncome /\ [][NextIncome]_vars

\* the posting refs held by the incomes handed to renderIncomeTimeline
TimelinePostingRefs ==
    UNION {Range(memory.lists[timeline.incomes[i].postings]) : i \in 1..Len(timeline.incomes)}

TimelineListRefs == {timeline.incomes[i].postings : i \in 1..Len(timeline.incomes)}

\* C10: the renderers and their helpers leave every field of every fetched
\* posting and the postings list of every fetched income unchanged; the
\* 'Income:Net' postings and the daily postings are new objects.
C10_FetchedPostingsImmutable ==
    /\ Live = fetched
    /\ rendered \in {"daily", "monthlyNet", "dailyNet"} =>
          /\ \A r \in TimelinePostingRefs : r > Len(fetched.postings)
          /\ \A l \in TimelineListRefs : l > Len(fetched.lists)

\* a net posting was built from an income's first fetched posting and differs
\* from it in amount and account
C10_Witness ==
    /\ rendered = "monthlyNet"
    /\ taxData /= <<>>
    /\ \E i \in 1..Len(incomeData) :
          LET base == fetched.lists[incomeData[i].postings]
              net  == memory.postings[memory.lists[timeline.incomes[i].postings][1]]
          IN  /\ Len(base) >= 2
              /\ net.account = IncomeNet
              /\ net.id = fetched.postings[base[1]].id
              /\ net.amount /= fetched.postings[base[1]].amount

\* the sum of the amounts of the postings with the refs S
RECURSIVE SumOfRefs(_, _)
SumOfRefs(postings, S) ==
    IF S = {} THEN 0
    ELSE LET r == CHOOSE x \in S : TRUE
         IN  postings[r].amount + SumOfRefs(postings, S \ {r})

\* the refs of the fetched postings of income entry i
IncomeRefs(i) == Range(fetched.lists[incomeData[i].postings])

\* the refs of the fetched postings of all tax entries with start_date in S
TaxRefs(S) ==
    UNION {Range(fetched.lists[taxData[t].postings]) :
              t \in {t \in 1..Len(taxData) : taxData[t].start_date \in S}}

AllDates == {taxData[t].start_date : t \in 1..Len(taxData)}

\* the year and month the timeline last rendered was drawn for
TimelineMonth == <<timeline.incomes[1].date[1], timeline.incomes[1].date[2]>>

\* the refs of the fetched postings of the income entries dated in month ym
MonthRefs(ym) ==
    UNION {IncomeRefs(i) :
              i \in {i \in 1..Len(incomeData) :
                        <<incomeData[i].date[1], incomeData[i].date[2]>> = ym}}

\* entry e is one posting on "Income:Net" of the given amount
IsNetEntry(e, amount) ==
    LET refs == memory.lists[e.postings]
    IN  /\ Len(refs) = 1
        /\ memory.postings[refs[1]].account = IncomeNet
        /\ memory.postings[refs[1]].amount = amount

CountOf(mem, refs, v) == Cardinality({i \in 1..Len(refs) : mem.postings[refs[i]] = v})

\* the fetched postings of the income entries dated in month ym, in order
RECURSIVE MonthInputs(_, _)
MonthInputs(ym, i) ==
    IF i > Len(incomeData) THEN <<>>
    ELSE (IF <<incomeData[i].date[1], incomeData[i].date[2]>> = ym
          THEN fetched.lists[incomeData[i].postings] ELSE <<>>) \o MonthInputs(ym, i + 1)

\* C19: transformToDailyData returns one entry per day 1..N of the target month
\* in ascending order; a posting of an income entry dated in the target month
\* occurs in the entry of its own day of month as often as in the input and in
\* no other entry; no other posting occurs in any entry; the amounts of the
\* returned entries sum to the amounts of the target month's input postings.
C19_DailyPartition ==
    rendered = "daily" =>
        LET N == DaysInMonth(TimelineMonth[1], TimelineMonth[2])
            inputs == MonthInputs(TimelineMonth, 1)
            entry(day) == memory.lists[timeline.incomes[day].postings]
        IN  /\ Len(timeline.incomes) = N
            /\ \A day \in 1..N :
                  /\ timeline.incomes[day].date = <<TimelineMonth[1], TimelineMonth[2], day>>
                  /\ \A v \in Range(fetched.postings) :
                        CountOf(memory, entry(day), v) =
                           IF v.date[3] = day THEN CountOf(fetched, inputs, v) ELSE 0
                  /\ \A i \in 1..Len(entry(day)) :
                        memory.postings[entry(day)[i]] \in Range(fetched.postings)
            /\ SumOfRefs(memory.postings, UNION {Range(entry(day)) : day \in 1..N}) =
                  SumOfRefs(fetched.postings, Range(inputs))

\* January drawn by day: postings on two different days, each in the entry
\* of its day, while February's income has postings too
C19_Witness ==
    /\ rendered = "daily"
    /\ TimelineMonth = <<2024, 1>>
    /\ Len(timeline.incomes) = 31
    /\ Len(memory.lists[timeline.incomes[1].postings]) = 1
    /\ Len(memory.lists[timeline.incomes[15].postings]) = 1
    /\ Len(fetched.lists[incomeData[2].postings]) >= 1

\* ------------------------------------------------------------------------
\* The income page: the reactive block that redraws the timeline
\* ------------------------------------------------------------------------

incomePageOthers == <<rollupVars, pageVars, tooltipVars, repaymentVars>>

\* the page as constructed; selectedMonthValue is the month the page is opened in
InitIncomePage ==
    /\ PageInit
    /\ RollupIdle
    /\ IncomeIdle
    /\ TooltipIdle
    /\ RepaymentIdle
    /\ incomeFetch = "pending"
    /\ timelineMode = "monthly"
    /\ incomeDisplayMode = "gross"
    /\ selectedMonthValue \in SelectableMonths
    /\ useFiltering = TRUE
    /\ svg = <<>>
    /\ monthlyInvestmentTimelineLegends = <<>>

\* the renderer the block calls for a filtering flag, display mode and timeline mode
Renderer(filtering, displayMode, mode) ==
    IF filtering
    THEN IF displayMode = "gross"
         THEN IF mode = "monthly" THEN "renderMonthlyInvestmentTimelineWithFilter"
              ELSE "renderDailyInvestmentTimelineWithFilter"
         ELSE IF mode = "monthly" THEN "renderMonthlyNetIncomeTimelineWithFilter"
              ELSE "renderDailyNetIncomeTimelineWithFilter"
    ELSE IF displayMode = "gross"
         THEN IF mode = "monthly" THEN "renderMonthlyInvestmentTimeline"
              ELSE "renderDailyInvestmentTimeline"
         ELSE IF mode = "monthly" THEN "renderMonthlyNetIncomeTimeline"
              ELSE "renderDailyNetIncomeTimeline"

\* the arguments of one render: the renderer, the incomes and, for a daily
\* timeline, selectedDate.year() and selectedDate.month() + 1
RenderCall(filtering, displayMode, mode, month, incomes) ==
    [renderer |-> Renderer(filtering, displayMode, mode),
     incomes  |-> incomes,
     month    |-> IF mode = "daily" THEN month ELSE <<>>]

\* renderIncomeTimeline draws into one group: g = svg.append("g")
AppendChart(children, call) == Append(children, [g |-> call])

\* the ...WithFilter renderers of $lib/income draw into one group as well and
\* redraw inside it when a legend is clicked
AppendFilteredChart(children, call) == Append(children, [g |-> call])

\* the legends a render returns
Legends(call) == [of |-> call]

\* as ClearSvg, but the children are left in place
ClearSvg_Keep(children) == children

\* if (svg) { svg.innerHTML = "" }
ClearSvg(children) == <<>>

\* $: if (incomeData.length > 0) { clear the svg; render; keep the legends }
TimelineBlock(incomes, displayMode, mode, month) ==
    IF Len(incomes) > 0
    THEN LET call == RenderCall(useFiltering, displayMode, mode, month, incomes)
         IN  /\ svg' = IF useFiltering THEN AppendFilteredChart(ClearSvg(svg), call)
                        ELSE AppendChart(ClearSvg(svg), call)
             /\ monthlyInvestmentTimelineLegends' = Legends(call)
    ELSE UNCHANGED <<svg, monthlyInvestmentTimelineLegends>>

\* the incomes and taxes "/api/income" may answer with
IncomeResponses ==
    {[memory |-> NoMemory, incomeData |-> <<>>, taxData |-> <<>>]} \cup
    {[memory |-> [postings |-> jan \o feb \o tax,
                  lists |-> << Refs(1, Len(jan)),
                               Refs(Len(jan) + 1, Len(feb)),
                               Refs(Len(jan) + Len(feb) + 1, Len(tax)) >>],
      incomeData |-> << [date |-> <<2024, 1, 1>>, postings |-> 1],
                        [date |-> <<2024, 2, 1>>, postings |-> 2] >>,
      taxData |-> IF Len(tax) = 0 THEN <<>>
                  ELSE << [start_date |-> <<2024, 1, 1>>, postings |-> 3] >>] :
        jan \in PostingLists(2024, 1), feb \in PostingLists(2024, 2),
        tax \in TaxPostingLists}

\* onMount: the awaited ajax("/api/income") resolves; the block runs in the
\* update that follows
IncomeFetchSucceeds ==
    /\ incomeFetch = "pending"
    /\ incomeFetch' = "done"
    /\ \E r \in IncomeResponses :
          /\ memory' = r.memory
          /\ fetched' = r.memory
          /\ incomeData' = r.incomeData
          /\ taxData' = r.taxData
          /\ TimelineBlock(r.incomeData, incomeDisplayMode, timelineMode, selectedMonthValue)
    /\ UNCHANGED <<timeline, rendered, timelineMode, incomeDisplayMode,
                   selectedMonthValue, useFiltering>>

\* onMount: the awaited ajax rejects
IncomeFetchFails ==
    /\ incomeFetch = "pending"
    /\ incomeFetch' = "failed"
    /\ UNCHANGED <<incomeVars, timelineMode, incomeDisplayMode, selectedMonthValue,
                   useFiltering, svg, monthlyInvestmentTimelineLegends>>

\* <BoxedTabs bind:value={timelineMode}>: another tab is chosen
SelectTimelineMode ==
    /\ \E mode \in {"daily", "monthly"} \ {timelineMode} :
          /\ timelineMode' = mode
          /\ TimelineBlock(incomeData, incomeDisplayMode, mode, selectedMonthValue)
    /\ UNCHANGED <<incomeVars, incomeFetch, incomeDisplayMode, selectedMonthValue,
                   useFiltering>>

\* <BoxedTabs bind:value={incomeDisplayMode}>: another tab is chosen
SelectIncomeDisplayMode ==
    /\ \E displayMode \in {"gross", "net"} \ {incomeDisplayMode} :
          /\ incomeDisplayMode' = displayMode
          /\ TimelineBlock(incomeData, displayMode, timelineMode, selectedMonthValue)
    /\ UNCHANGED <<incomeVars, incomeFetch, timelineMode, selectedMonthValue,
                   useFiltering>>

\* <MonthPicker bind:value={selectedMonthValue}>, shown in daily mode only
SelectMonth ==
    /\ timelineMode = "daily"
    /\ \E month \in SelectableMonths \ {selectedMonthValue} :
          /\ selectedMonthValue' = month
          /\ TimelineBlock(incomeData, incomeDisplayMode, timelineMode, month)
    /\ UNCHANGED <<incomeVars, incomeFetch, timelineMode, incomeDisplayMode,
                   useFiltering>>

NextIncomePage ==
    \/ IncomeFetchSucceeds /\ UNCHANGED incomePageOthers
    \/ IncomeFetchFails /\ UNCHANGED incomePageOthers
    \/ SelectTimelineMode /\ UNCHANGED incomePageOthers
    \/ SelectIncomeDisplayMode /\ UNCHANGED incomePageOthers
    \/ SelectMonth /\ UNCHANGED incomePageOthers

SpecIncomePage == InitIncomePage /\ [][NextIncomePage]_vars

\* C17: while incomeData is empty nothing is drawn; otherwise the svg holds
\* exactly one chart group, the one drawn by the render for the current
\* timeline mode, display mode and month, and the legends shown are the ones
\* that render returned.
C17_SvgHoldsLastRender ==
    IF incomeData = <<>>
    THEN svg = <<>> /\ monthlyInvestmentTimelineLegends = <<>>
    ELSE /\ Len(svg) = 1
         /\ svg[1].g = RenderCall(useFiltering, incomeDisplayMode, timelineMode,
                                  selectedMonthValue, incomeData)
         /\ monthlyInvestmentTimelineLegends = Legends(svg[1].g)

\* the daily net timeline of February drawn after earlier renders
C17_Witness ==
    /\ incomeData /= <<>>
    /\ timelineMode = "daily"
    /\ incomeDisplayMode = "net"
    /\ selectedMonthValue = <<2024, 2>>
    /\ Len(svg) = 1
    /\ svg[1].g.renderer = "renderDailyNetIncomeTimelineWithFilter"

\* ------------------------------------------------------------------------
\* The tooltips of the yearly income timeline and the monthly expense chart
\* ------------------------------------------------------------------------

tooltipOthers == <<rollupVars, pageVars, incomeVars, incomePageVars, repaymentVars>>

MaxTooltipPostings == 3

\* the postings a tooltip may be built from: two groups with equal totals,
\* one group with a positive and a negative posting, one with an empty name
TooltipPostingKinds ==
    { Posting("e1", <<2024, 1, 1>>, "Shop", <<"E", ":", "S">>, "INR", 3),
      Posting("e2", <<2024, 1, 2>>, "Shop", <<"E", ":", "S">>, "INR", -2),
      Posting("e3", <<2024, 1, 3>>, "Cafe", <<"E", ":", "T">>, "INR", 1),
      Posting("e4", <<2024, 1, 4>>, "Taxi", <<"E", ":", "N">>, "INR", 1),
      Posting("e5", <<2024, 1, 5>>, "Cash", <<"E", ":">>, "INR", 2) }

\* the groups the legend has left switched on
GroupChoices ==
    { <<>>, <<<<"S">>, <<"T">>>>, <<<<"N">>, <<"T">>, <<"S">>, <<>>>> }

\* the values maxEntries takes (the callers leave it at its default)
EntryLimits == {0, 1, 2}

\* expenseGroup(posting): the segment of the account after the first colon
expenseGroup(posting) == secondName(posting.account)

\* the keys of _.groupBy, in the order they first occur
RECURSIVE Uniq(_)
Uniq(keys) ==
    IF Len(keys) = 0 THEN <<>>
    ELSE LET front == Uniq(SubSeq(keys, 1, Len(keys) - 1))
             last == keys[Len(keys)]
         IN  IF last \in Range(front) THEN front ELSE Append(front, last)

\* _.sumBy(items, "amount")
RECURSIVE SumByAmount(_)
SumByAmount(items) ==
    IF Len(items) = 0 THEN 0 ELSE Head(items).amount + SumByAmount(Tail(items))

\* _.orderBy(items, ["amount"], ["desc"]): a stable sort
RECURSIVE OrderByDesc(_)
OrderByDesc(items) ==
    IF Len(items) = 0 THEN <<>>
    ELSE LET sorted == OrderByDesc(SubSeq(items, 1, Len(items) - 1))
             item == items[Len(items)]
             n == Cardinality({i \in 1..Len(sorted) : sorted[i].amount >= item.amount})
         IN  SubSeq(sorted, 1, n) \o <<item>> \o SubSeq(sorted, n + 1, Len(sorted))

\* the label of the group with the empty name
Other == <<"O", "t", "h", "e", "r">>

\* a row of a category (amount is what formatCurrency is given) and the row
\* "... and ${remainingCount} more categories"
CategoryRow(item) ==
    [kind |-> "category", category |-> item.category, amount |-> item.amount,
     remainingCount |-> 0]

MoreRow(remainingCount) ==
    [kind |-> "more", category |-> <<>>, amount |-> 0, remainingCount |-> remainingCount]

\* as createYearlyTooltipContent, but the total is taken over the listed categories
createYearlyTooltipContent_TotalOfListed(postings, allowed, limit) ==
    LET keys == Uniq([i \in 1..Len(postings) |-> incomeGroup(postings[i])])
        aggregatedCategories ==
            [k \in 1..Len(keys) |->
                [category |-> IF keys[k] = <<>> THEN Other ELSE keys[k],
                 amount |-> -SumByAmount(SelectSeq(postings,
                                LAMBDA posting : incomeGroup(posting) = keys[k]))]]
        sortedCategories == OrderByDesc(aggregatedCategories)
        shouldTruncate == Len(sortedCategories) > limit
        displayCategories ==
            IF shouldTruncate THEN SubSeq(sortedCategories, 1, limit) ELSE sortedCategories
        total == SumByAmount(displayCategories)
        tooltipRows == [i \in 1..Len(displayCategories) |-> CategoryRow(displayCategories[i])]
    IN  [rows |-> IF shouldTruncate
                  THEN Append(tooltipRows, MoreRow(Len(sortedCategories) - limit))
                  ELSE tooltipRows,
         total |-> total]

createYearlyTooltipContent(postings, allowed, limit) ==
    LET keys == Uniq([i \in 1..Len(postings) |-> incomeGroup(postings[i])])
        aggregatedCategories ==
            [k \in 1..Len(keys) |->
                [category |-> IF keys[k] = <<>> THEN Other ELSE keys[k],
                 amount |-> -SumByAmount(SelectSeq(postings,
                                LAMBDA posting : incomeGroup(posting) = keys[k]))]]
        sortedCategories == OrderByDesc(aggregatedCategories)
        total == SumByAmount(aggregatedCategories)
        shouldTruncate == Len(sortedCategories) > limit
        displayCategories ==
            IF shouldTruncate THEN SubSeq(sortedCategories, 1, limit) ELSE sortedCategories
        tooltipRows == [i \in 1..Len(displayCategories) |-> CategoryRow(displayCategories[i])]
    IN  [rows |-> IF shouldTruncate
                  THEN Append(tooltipRows, MoreRow(Len(sortedCategories) - limit))
                  ELSE tooltipRows,
         total |-> total]

createExpenseTooltipContent(postings, allowedGroups, limit) ==
    LET filteredPostings ==
            SelectSeq(postings, LAMBDA posting :
                /\ posting.amount > 0
                /\ expenseGroup(posting) \in Range(allowedGroups))
        keys == Uniq([i \in 1..Len(filteredPostings) |-> expenseGroup(filteredPostings[i])])
        groupedByCategory ==
            OrderByDesc([k \in 1..Len(keys) |->
                [category |-> keys[k],
                 amount |-> SumByAmount(SelectSeq(filteredPostings,
                                LAMBDA posting : expenseGroup(posting) = keys[k]))]])
        grandTotal == SumByAmount(groupedByCategory)
        shouldTruncate == Len(groupedByCategory) > limit
        displayCategories ==
            IF shouldTruncate THEN SubSeq(groupedByCategory, 1, limit) ELSE groupedByCategory
        tooltipRows == [i \in 1..Len(displayCategories) |-> CategoryRow(displayCategories[i])]
        header == IF Len(filteredPostings) > 0
                  THEN <<filteredPostings[1].date[1], filteredPostings[1].date[2]>>
                  ELSE <<>>
    IN  [rows |-> IF shouldTruncate
                  THEN Append(tooltipRows, MoreRow(Len(groupedByCategory) - limit))
                  ELSE tooltipRows,
         total |-> grandTotal,
         header |-> header]

InitTooltip ==
    /\ PageInit
    /\ RollupIdle
    /\ IncomeIdle
    /\ IncomePageIdle
    /\ RepaymentIdle
    /\ allPostings \in UNION {[1..n -> TooltipPostingKinds] : n \in 0..MaxTooltipPostings}
    /\ groups \in GroupChoices
    /\ maxEntries \in EntryLimits
    /\ content = [rows |-> <<>>, total |-> 0]
    /\ called = "none"

\* the pointer enters a bar of the yearly income timeline
HoverYearlyBar ==
    /\ content' = createYearlyTooltipContent(allPostings, groups, maxEntries)
    /\ called' = "yearly"
    /\ UNCHANGED <<allPostings, groups, maxEntries>>

\* the pointer enters a month of the expense chart
HoverExpenseMonth ==
    /\ content' = createExpenseTooltipContent(allPostings, groups, maxEntries)
    /\ called' = "expense"
    /\ UNCHANGED <<allPostings, groups, maxEntries>>

NextTooltip ==
    \/ HoverYearlyBar /\ UNCHANGED tooltipOthers
    \/ HoverExpenseMonth /\ UNCHANGED tooltipOthers

SpecTooltip == InitTooltip /\ [][NextTooltip]_vars

\* the refs of the postings the tooltip last built counts
CountedRefs ==
    IF called = "yearly" THEN 1..Len(allPostings)
    ELSE {r \in 1..Len(allPostings) :
             /\ allPostings[r].amount > 0
             /\ \E g \in 1..Len(groups) : groups[g] = Split(allPostings[r].account)[2]}

\* the categories of the counted postings and the total and label of each
Categories == {Split(allPostings[r].account)[2] : r \in CountedRefs}

CategoryTotal(c) ==
    LET sum == SumOfRefs(allPostings,
                   {r \in CountedRefs : Split(allPostings[r].account)[2] = c})
    IN  IF called = "yearly" THEN -sum ELSE sum

CategoryLabel(c) == IF called = "yearly" /\ c = <<>> THEN Other ELSE c

RECURSIVE SumOfTotals(_)
SumOfTotals(S) ==
    IF S = {} THEN 0
    ELSE LET c == CHOOSE x \in S : TRUE
         IN  CategoryTotal(c) + SumOfTotals(S \ {c})

\* C20: a tooltip lists min(count, maxEntries) categories, each once and with
\* its total, in descending order of total, and no unlisted category has a
\* larger total than a listed one; when count > maxEntries exactly one more row
\* follows, stating count - maxEntries, otherwise every category is listed and
\* no such row is added; the total is the sum over all categories.
C20_EntriesLimited ==
    called /= "none" =>
        LET count == Cardinality(Categories)
            rows == content.rows
            listed == IF count > maxEntries THEN maxEntries ELSE count
        IN  /\ Len(rows) = listed + (IF count > maxEntries THEN 1 ELSE 0)
            /\ \A i \in 1..listed :
                  /\ rows[i].kind = "category"
                  /\ \E c \in Categories :
                        /\ rows[i].category = CategoryLabel(c)
                        /\ rows[i].amount = CategoryTotal(c)
            /\ \A i, j \in 1..listed :
                  i < j => /\ rows[i].category /= rows[j].category
                           /\ rows[i].amount >= rows[j].amount
            /\ \A c \in Categories :
                  (\A i \in 1..listed : rows[i].category /= CategoryLabel(c))
                     => \A i \in 1..listed : rows[i].amount >= CategoryTotal(c)
            /\ count > maxEntries => rows[listed + 1] = MoreRow(count - maxEntries)
            /\ content.total = SumOfTotals(Categories)

\* three categories, one listed, two hidden whose totals are part of the total
C20_Witness ==
    /\ called = "yearly"
    /\ maxEntries = 1
    /\ Cardinality(Categories) = 3
    /\ Len(content.rows) = 2
    /\ content.rows[2].remainingCount = 2
    /\ content.total /= content.rows[1].amount

\* ------------------------------------------------------------------------
\* The monthly repayment timeline with its legend filter
\* ------------------------------------------------------------------------

repaymentOthers == <<rollupVars, pageVars, incomeVars, incomePageVars, tooltipVars>>

MaxRepayments == 3

\* now().startOf("month"): the month the timeline is rendered in
CurrentMonth == <<2024, 2>>

\* the postings the timeline may be given: three groups over three months,
\* negative amounts, and two postings of one group and month that cancel
RepaymentKinds ==
    { Posting("r1", <<2023, 12, 10>>, "Bank", <<"L", ":", "A">>, "INR", 3),
      Posting("r2", <<2024, 2, 5>>, "Bank", <<"L", ":", "A">>, "INR", -1),
      Posting("r3", <<2024, 1, 7>>, "Bank", <<"L", ":", "B">>, "INR", 2),
      Posting("r4", <<2024, 2, 9>>, "Bank", <<"L", ":", "B">>, "INR", 4),
      Posting("r5", <<2024, 2, 11>>, "Bank", <<"L", ":", "C", ":", "D">>, "INR", 1),
      Posting("r6", <<2024, 1, 20>>, "Bank", <<"L", ":", "B">>, "INR", -2) }

\* restName(account): the account without its first segment
restName(account) == Join(Tail(Split(account)))

\* p.date.format("MMM-YYYY"), as year and month
MonthOf(date) == <<date[1], date[2]>>

\* _.min(_.map(postings, (p) => p.date)), as year and month
StartMonth(ps) ==
    MonthOf((CHOOSE p \in Range(ps) : \A q \in Range(ps) :
                p.date[1] * 10000 + p.date[2] * 100 + p.date[3]
                   <= q.date[1] * 10000 + q.date[2] * 100 + q.date[3]).date)

\* forEachMonth(start, end, ...): the months from start to end, both included
RECURSIVE MonthsFrom(_, _)
MonthsFrom(month, end) ==
    IF month[1] * 12 + month[2] > end[1] * 12 + end[2] THEN <<>>
    ELSE <<month>> \o MonthsFrom(IF month[2] = 12 THEN <<month[1] + 1, 1>>
                                 ELSE <<month[1], month[2] + 1>>, end)

\* const groups
GroupsOfPostings(ps) ==
    SortStrings(Uniq([i \in 1..Len(ps) |-> restName(ps[i].account)]), <<>>)

\* the point pushed for one month: _.merge({month, date, postings}, defaultValues, values)
MonthPoint(ps, grps, month) ==
    LET postings == SelectSeq(ps, LAMBDA p : MonthOf(p.date) = month)
    IN  [month |-> month,
         postings |-> postings,
         values |-> [key \in Range(grps) |->
                        SumByAmount(SelectSeq(postings, LAMBDA t : restName(t.account) = key))]]

\* const points: one new object a month
BuildPoints(ps, grps) ==
    LET months == MonthsFrom(StartMonth(ps), CurrentMonth)
    IN  [objects |-> [i \in 1..Len(months) |-> MonthPoint(ps, grps, months[i])],
         refs |-> [i \in 1..Len(months) |-> i]]

\* as SpreadPoint, but the point itself is handed on
SpreadPoint_SameObject(objs, ref) == [objects |-> objs, ref |-> ref]

\* const filteredPoint = { ...point }: a new object with the point's properties
SpreadPoint(objs, ref) == [objects |-> Append(objs, objs[ref]), ref |-> Len(objs) + 1]

\* the callback of points.map(...): the copy with the non-allowed groups at 0
FilterPoint(objs, ref, grps, allowedGroups) ==
    LET copy == SpreadPoint(objs, ref)
        old == copy.objects[copy.ref].values
        zeroed == [key \in DOMAIN old |->
                      IF key \in Range(grps) /\ key \notin Range(allowedGroups)
                      THEN 0 ELSE old[key]]
    IN  [objects |-> [copy.objects EXCEPT ![copy.ref].values = zeroed], ref |-> copy.ref]

RECURSIVE FilterPoints(_, _, _, _, _)
FilterPoints(objs, pts, i, grps, allowedGroups) ==
    IF i > Len(pts) THEN [objects |-> objs, refs |-> <<>>]
    ELSE LET one == FilterPoint(objs, pts[i], grps, allowedGroups)
             rest == FilterPoints(one.objects, pts, i + 1, grps, allowedGroups)
         IN  [objects |-> rest.objects, refs |-> <<one.ref>> \o rest.refs]

\* d3.stack().offset(d3.stackOffsetDiverging).keys(keys) for one point:
\* positive values pile up from 0, negative values pile down from 0
RECURSIVE StackDiverging(_, _, _, _, _)
StackDiverging(keys, i, values, yp, yn) ==
    IF i > Len(keys) THEN <<>>
    ELSE LET d == values[keys[i]]
         IN  IF d > 0 THEN << <<yp, yp + d>> >> \o StackDiverging(keys, i + 1, values, yp + d, yn)
             ELSE IF d < 0
                  THEN << <<yn + d, yn>> >> \o StackDiverging(keys, i + 1, values, yp, yn + d)
                  ELSE << <<0, d>> >> \o StackDiverging(keys, i + 1, values, yp, yn)

\* _.sum(_.map(allowedGroups, (k) => p[k]))
RECURSIVE SumOfKeys(_, _)
SumOfKeys(keys, values) ==
    IF Len(keys) = 0 THEN 0 ELSE values[Head(keys)] + SumOfKeys(Tail(keys), values)

\* render(allowedGroups): the objects alive afterwards and what is drawn
render(objs, pts, grps, allowedGroups) ==
    LET filtered == FilterPoints(objs, pts, 1, grps, allowedGroups)
        filteredPoints == [i \in 1..Len(filtered.refs) |-> filtered.objects[filtered.refs[i]]]
        sums == {SumOfKeys(allowedGroups, filteredPoints[i].values) : i \in 1..Len(filteredPoints)}
    IN  [objects |-> filtered.objects,
         bars |-> [xDomain |-> [i \in 1..Len(filteredPoints) |-> filteredPoints[i].month],
                   yDomain |-> <<0, CHOOSE m \in sums : \A n \in sums : n <= m>>,
                   keys |-> allowedGroups,
                   rects |-> [i \in 1..Len(filteredPoints) |->
                                 StackDiverging(allowedGroups, 1, filteredPoints[i].values, 0, 0)]]]

\* the state a render leaves: the copies it made are reachable only from the
\* rects, whose values bars holds
Drawn(r) ==
    /\ objects' = SubSeq(r.objects, 1, Len(points'))
    /\ bars' = r.bars

\* renderMonthlyRepaymentTimelineWithFilter(postings, onFilterChange) up to its return
InitRepayment ==
    /\ PageInit
    /\ RollupIdle
    /\ IncomeIdle
    /\ IncomePageIdle
    /\ TooltipIdle
    /\ repaymentPostings \in UNION {[1..n -> RepaymentKinds] : n \in 1..MaxRepayments}
    /\ repaymentGroups = GroupsOfPostings(repaymentPostings)
    /\ points = BuildPoints(repaymentPostings, repaymentGroups).refs
    /\ selectedGroups = repaymentGroups
    /\ \E r \in {render(BuildPoints(repaymentPostings, repaymentGroups).objects,
                        points, repaymentGroups, selectedGroups)} :
          /\ objects = SubSeq(r.objects, 1, Len(points))
          /\ bars = r.bars
    /\ filterChange = <<>>

\* onClick of the legend of group
onClick(group) ==
    /\ selectedGroups' = IF Len(selectedGroups) = 1 /\ selectedGroups[1] = group
                         THEN repaymentGroups
                         ELSE <<group>>
    /\ UNCHANGED <<repaymentPostings, repaymentGroups, points>>
    /\ \E r \in {render(objects, points, repaymentGroups, selectedGroups')} : Drawn(r)
    /\ filterChange' = selectedGroups'

NextRepayment ==
    \E group \in Range(repaymentGroups) : onClick(group) /\ UNCHANGED repaymentOthers

SpecRepayment == InitRepayment /\ [][NextRepayment]_vars

\* the value of a group in the month of point p, from the postings given
GroupValue(p, group) ==
    SumOfRefs(repaymentPostings,
        {r \in 1..Len(repaymentPostings) :
            /\ MonthOf(repaymentPostings[r].date) = objects[points[p]].month
            /\ Join(Tail(Split(repaymentPostings[r].account))) = group})

\* the sum of the values of the groups before the k-th that have the sign of the k-th
RECURSIVE SameSignBelow(_, _, _)
SameSignBelow(p, k, j) ==
    IF j >= k THEN 0
    ELSE (IF GroupValue(p, repaymentGroups[j]) * GroupValue(p, repaymentGroups[k]) > 0
          THEN GroupValue(p, repaymentGroups[j]) ELSE 0) + SameSignBelow(p, k, j + 1)

\* C21: render never changes the base points: after every sequence of legend
\* clicks each point still holds, for every group, the sum of the month's
\* postings of the group; and whenever the selection is all groups, the
\* interval drawn for every month and group is the one of the first render:
\* the group's value piled on the values of its sign of the groups before it.
C21_BasePointsKept ==
    /\ \A p \in 1..Len(points) : \A group \in Range(repaymentGroups) :
          objects[points[p]].values[group] = GroupValue(p, group)
    /\ selectedGroups = repaymentGroups =>
          /\ bars.keys = repaymentGroups
          /\ Len(bars.rects) = Len(points)
          /\ \A p \in 1..Len(points) : \A k \in 1..Len(repaymentGroups) :
                LET d == GroupValue(p, repaymentGroups[k])
                    below == SameSignBelow(p, k, 1)
                IN  bars.rects[p][k] = IF d > 0 THEN <<below, below + d>>
                                       ELSE IF d < 0 THEN <<below + d, below>>
                                       ELSE <<0, 0>>

\* all groups are shown again after legend clicks that had hidden a group
\* with a value other than 0
C21_Witness ==
    /\ filterChange = repaymentGroups
    /\ selectedGroups = repaymentGroups
    /\ Len(repaymentGroups) >= 2
    /\ Len(points) >= 2
    /\ \E p \in 1..Len(points) :
          /\ bars.rects[p][1] /= <<0, 0>>
          /\ bars.rects[p][2] /= <<0, 0>>

====
